---- MODULE Spec2Model ----
(***************************************************************************)
(* Model of the worklog CLI (src/log_script.py): the commands log, view    *)
(* and init acting on the month files under work_logs/, the configuration  *)
(* file worklog_config.yaml, and the outcome of the git commit.            *)
(*                                                                         *)
(* Text is modelled as a sequence of characters, each a string, so that    *)
(* formatting (strftime, f-strings), str.strip, str.split and              *)
(* str.startswith are computed character by character as Python does.      *)
(* An ASCII character is written as itself, a character beyond ASCII by    *)
(* the name of its code point ("U+00A0").                                  *)
(***************************************************************************)
EXTENDS Integers, Sequences, FiniteSets, TLC

(***************************************************************************)
(* Bounds of the model.                                                    *)
(***************************************************************************)
\* log invocations in one behaviour
MaxLogs == 2
\* non-blank lines typed at the prompts in one behaviour
MaxLines == 1
\* non-blank lines typed at the prompts of a single log invocation, in the
\* specification of one invocation
MaxEntryLines == 3

(***************************************************************************)
(* Text helpers.                                                           *)
(***************************************************************************)
Digits == <<"0", "1", "2", "3", "4", "5", "6", "7", "8", "9">>

\* one decimal digit as a character
DigitChar(n) == Digits[n + 1]

\* %m, %d : two digits, zero padded
Pad2(n) == <<DigitChar((n \div 10) % 10), DigitChar(n % 10)>>

\* %Y : the year in decimal, as the C library of the build writes it: no
\* zero padding, so the year 999 gives "999"
RECURSIVE StrfY(_)
StrfY(n) ==
  IF n < 10 THEN <<DigitChar(n)>>
  ELSE StrfY(n \div 10) \o <<DigitChar(n % 10)>>

\* str.startswith
StartsWith(s, prefix) ==
  /\ Len(prefix) <= Len(s)
  /\ SubSeq(s, 1, Len(prefix)) = prefix

\* s[i:] with i counted from 1
DropFirst(s, n) == SubSeq(s, n + 1, Len(s))

\* A character of a text is a string: an ASCII character is written as
\* itself, a character beyond ASCII by the name of its code point, so that
\* "U+00A0" is the one character NO-BREAK SPACE and a text holding it, as in
\* <<"a", "U+00A0">>, has length 2.
\*
\* str.isspace() holds for these characters beyond ASCII, and str.strip()
\* removes them: next line, no-break space, ogham space mark, en quad to
\* hair space, line separator, paragraph separator, narrow no-break space,
\* medium mathematical space, ideographic space
UnicodeSpaces ==
  {"U+0085", "U+00A0", "U+1680",
   "U+2000", "U+2001", "U+2002", "U+2003", "U+2004", "U+2005", "U+2006",
   "U+2007", "U+2008", "U+2009", "U+200A",
   "U+2028", "U+2029", "U+202F", "U+205F", "U+3000"}

\* characters removed by str.strip(): those for which str.isspace() holds.
\* In ASCII: tab, line feed, vertical tab, form feed, carriage return, the
\* separators U+001C to U+001F and space
Whitespace ==
  {"\t", "\n", "", "\f", "\r", "",
   "", "", "", " "} \cup UnicodeSpaces

\* the escape character, U+001B
ESC == ""

RECURSIVE LStrip(_)
LStrip(s) ==
  IF s # <<>> /\ Head(s) \in Whitespace THEN LStrip(Tail(s)) ELSE s

RECURSIVE RStrip(_)
RStrip(s) ==
  IF s # <<>> /\ s[Len(s)] \in Whitespace
    THEN RStrip(SubSeq(s, 1, Len(s) - 1))
    ELSE s

\* str.strip()
Strip(s) == RStrip(LStrip(s))

\* position of the first occurrence of sep in s at or after from, 0 if none
RECURSIVE FindFrom(_, _, _)
FindFrom(s, sep, from) ==
  IF from + Len(sep) - 1 > Len(s) THEN 0
  ELSE IF SubSeq(s, from, from + Len(sep) - 1) = sep THEN from
  ELSE FindFrom(s, sep, from + 1)

\* str.split(sep): the segments between the non-overlapping occurrences of
\* sep, scanned left to right
RECURSIVE Split(_, _)
Split(s, sep) ==
  LET i == FindFrom(s, sep, 1) IN
    IF i = 0 THEN <<s>>
    ELSE <<SubSeq(s, 1, i - 1)>> \o Split(DropFirst(s, i + Len(sep) - 1), sep)

\* The bytes that open() in text mode writes for a character beyond ASCII
\* (UTF-8), each byte written by its name; an ASCII character is one byte,
\* written as the character
Utf8Table ==
  "U+0085" :> <<"0xC2", "0x85">> @@
  "U+00A0" :> <<"0xC2", "0xA0">> @@
  "U+00E9" :> <<"0xC3", "0xA9">> @@
  "U+1680" :> <<"0xE1", "0x9A", "0x80">> @@
  "U+2000" :> <<"0xE2", "0x80", "0x80">> @@
  "U+2001" :> <<"0xE2", "0x80", "0x81">> @@
  "U+2002" :> <<"0xE2", "0x80", "0x82">> @@
  "U+2003" :> <<"0xE2", "0x80", "0x83">> @@
  "U+2004" :> <<"0xE2", "0x80", "0x84">> @@
  "U+2005" :> <<"0xE2", "0x80", "0x85">> @@
  "U+2006" :> <<"0xE2", "0x80", "0x86">> @@
  "U+2007" :> <<"0xE2", "0x80", "0x87">> @@
  "U+2008" :> <<"0xE2", "0x80", "0x88">> @@
  "U+2009" :> <<"0xE2", "0x80", "0x89">> @@
  "U+200A" :> <<"0xE2", "0x80", "0x8A">> @@
  "U+2028" :> <<"0xE2", "0x80", "0xA8">> @@
  "U+2029" :> <<"0xE2", "0x80", "0xA9">> @@
  "U+202F" :> <<"0xE2", "0x80", "0xAF">> @@
  "U+205F" :> <<"0xE2", "0x81", "0x9F">> @@
  "U+3000" :> <<"0xE3", "0x80", "0x80">>

Utf8(c) == IF c \in DOMAIN Utf8Table THEN Utf8Table[c] ELSE <<c>>

\* str.encode: the bytes of a text
RECURSIVE Encode(_)
Encode(s) == IF s = <<>> THEN <<>> ELSE Utf8(Head(s)) \o Encode(Tail(s))

\* the characters of a sequence of bytes; a byte that is no character and
\* starts none stays in the result as a byte
RECURSIVE Decode(_)
Decode(b) ==
  IF b = <<>> THEN <<>>
  ELSE IF \E c \in DOMAIN Utf8Table : StartsWith(b, Utf8Table[c])
    THEN LET c == CHOOSE x \in DOMAIN Utf8Table : StartsWith(b, Utf8Table[x])
         IN <<c>> \o Decode(DropFirst(b, Len(Utf8Table[c])))
    ELSE <<Head(b)>> \o Decode(Tail(b))

\* the names of the bytes beyond ASCII
ByteNames ==
  UNION { {Utf8Table[c][i] : i \in 1..Len(Utf8Table[c])} : c \in DOMAIN Utf8Table }

\* f.read() raises UnicodeDecodeError on a file that holds a byte which is
\* no character
Undecodable(content) == \E i \in 1..Len(content) : content[i] \in ByteNames

\* click.echo on an output that is no terminal removes the ANSI escape
\* sequences from the text: ESC "[", any of ";?0-9", one letter
AnsiParams == {";", "?", "0", "1", "2", "3", "4", "5", "6", "7", "8", "9"}

AnsiLetters ==
  {"a", "b", "c", "d", "e", "f", "g", "h", "i", "j", "k", "l", "m", "n", "o",
   "p", "q", "r", "s", "t", "u", "v", "w", "x", "y", "z",
   "A", "B", "C", "D", "E", "F", "G", "H", "I", "J", "K", "L", "M", "N", "O",
   "P", "Q", "R", "S", "T", "U", "V", "W", "X", "Y", "Z"}

\* position of the letter that ends the escape sequence whose parameters
\* start at i, 0 if there is none
RECURSIVE AnsiEnd(_, _)
AnsiEnd(s, i) ==
  IF i > Len(s) THEN 0
  ELSE IF s[i] \in AnsiParams THEN AnsiEnd(s, i + 1)
  ELSE IF s[i] \in AnsiLetters THEN i
  ELSE 0

\* click's strip_ansi
RECURSIVE StripAnsi(_)
StripAnsi(s) ==
  IF s = <<>> THEN <<>>
  ELSE IF Len(s) >= 2 /\ s[1] = ESC /\ s[2] = "[" /\ AnsiEnd(s, 3) > 0
    THEN StripAnsi(DropFirst(s, AnsiEnd(s, 3)))
    ELSE <<Head(s)>> \o StripAnsi(Tail(s))

\* open(file_path).read(): a text-mode read with universal newlines, which
\* gives "\n" for every "\r\n" and for every lone "\r" of the file
ReadText(content) ==
  LET Kept(c) == c # ""
      translated ==
        [i \in 1..Len(content) |->
           IF content[i] # "\r" THEN content[i]
           ELSE IF i < Len(content) /\ content[i + 1] = "\n" THEN ""
           ELSE "\n"]
  IN SelectSeq(translated, Kept)

(***************************************************************************)
(* Dates and their formats.                                                *)
(***************************************************************************)
Date(y, m, d) == [y |-> y, m |-> m, d |-> d]

MonthNames ==
  << <<"J", "a", "n", "u", "a", "r", "y">>,
     <<"F", "e", "b", "r", "u", "a", "r", "y">>,
     <<"M", "a", "r", "c", "h">>,
     <<"A", "p", "r", "i", "l">>,
     <<"M", "a", "y">>,
     <<"J", "u", "n", "e">>,
     <<"J", "u", "l", "y">>,
     <<"A", "u", "g", "u", "s", "t">>,
     <<"S", "e", "p", "t", "e", "m", "b", "e", "r">>,
     <<"O", "c", "t", "o", "b", "e", "r">>,
     <<"N", "o", "v", "e", "m", "b", "e", "r">>,
     <<"D", "e", "c", "e", "m", "b", "e", "r">> >>

\* strftime('%Y-%m-%d')
StrfYmd(dt) == StrfY(dt.y) \o <<"-">> \o Pad2(dt.m) \o <<"-">> \o Pad2(dt.d)

\* strftime('%Y_%m')
StrfYm(dt) == StrfY(dt.y) \o <<"_">> \o Pad2(dt.m)

\* strftime('%B %Y')
StrfBY(dt) == MonthNames[dt.m] \o <<" ">> \o StrfY(dt.y)

\* the days the clock passes through, in order
ClockDays == <<Date(2024, 1, 31), Date(2024, 2, 1)>>

\* the dates a --date option is given
OptionDates == {Date(2024, 1, 31), Date(2024, 2, 1)}

\* the months a --month option is given (click.DateTime: day 1 of the month)
OptionMonths == {Date(2024, 1, 1), Date(2024, 2, 1)}

\* an option that was not given on the command line
None == [y |-> 0, m |-> 0, d |-> 0]

(***************************************************************************)
(* Configuration.                                                          *)
(***************************************************************************)
DefaultCategories ==
  << <<"P", "r", "o", "j", "e", "c", "t", "s">>,
     <<"C", "o", "d", "e", " ", "C", "h", "a", "n", "g", "e", "s">>,
     <<"C", "o", "d", "e", " ", "R", "e", "v", "i", "e", "w", "s">>,
     <<"D", "e", "s", "i", "g", "n", " ", "D", "o", "c", "u", "m", "e", "n", "t", "s">>,
     <<"M", "e", "e", "t", "i", "n", "g", "s", " ", "&", " ", "D", "i", "s", "c", "u", "s", "s", "i", "o", "n", "s">>,
     <<"H", "e", "l", "p", "i", "n", "g", " ", "O", "t", "h", "e", "r", "s">>,
     <<"O", "t", "h", "e", "r", " ", "T", "a", "s", "k", "s">> >>

DEFAULT_CONFIG ==
  [categories      |-> DefaultCategories,
   backup_dir      |-> <<"~", "/", ".", "w", "o", "r", "k", "l", "o", "g", "_", "b", "a", "c", "k", "u", "p">>,
   git_auto_commit |-> FALSE]

\* configuration documents a user has written by hand
UserConfigs ==
  { [categories |-> << <<"D", "e", "v">>, <<"O", "p", "s">> >>,
     git_auto_commit |-> TRUE] }

\* line 38 on a file of 0 bytes: yaml.safe_load gives None and the merge
\* {**DEFAULT_CONFIG, **None} raises TypeError
LoadFails(cfg) == cfg.exists /\ cfg.empty

\* {**DEFAULT_CONFIG, **yaml.safe_load(f)}, or DEFAULT_CONFIG without a file
load_config(cfg) ==
  IF ~cfg.exists THEN DEFAULT_CONFIG
  ELSE [k \in DOMAIN DEFAULT_CONFIG |->
          IF k \in DOMAIN cfg.yaml THEN cfg.yaml[k] ELSE DEFAULT_CONFIG[k]]

(***************************************************************************)
(* Entry Collector: the data it builds.                                    *)
(***************************************************************************)
\* (item, sub_items), the tuple appended at line 112
TupleItem(item, sub_items) ==
  [isTuple |-> TRUE, main_item |-> item, sub_items |-> sub_items]

\* a bare string, appended at line 91
StrItem(item) == [isTuple |-> FALSE, main_item |-> item, sub_items |-> <<>>]

\* a truth value under which every element of items counts as empty
TruthyNever(it) == FALSE

\* a truth value under which no element of items counts as empty
TruthyAlways(it) == TRUE

\* Python truth value of an element of items: a 2-tuple is true, a string is
\* true iff it is not empty
Truthy(it) == it.isTuple \/ it.main_item # <<>>

\* entries[category] = items on an insertion-ordered dict
DictSet(entries, category, items) ==
  IF \E i \in 1..Len(entries) : entries[i].category = category
    THEN [i \in 1..Len(entries) |->
            IF entries[i].category = category
              THEN [category |-> category, items |-> items]
              ELSE entries[i]]
    ELSE Append(entries, [category |-> category, items |-> items])

\* a collector that stores a category whatever its items
StoreCategoryAlways(entries, category, items) ==
  DictSet(entries, category, items)

\* lines 114-115
StoreCategory(entries, category, items) ==
  IF items # <<>> THEN DictSet(entries, category, items) ELSE entries

(***************************************************************************)
(* Entry Formatter.                                                        *)
(***************************************************************************)
RECURSIVE FormatSubItems(_)
FormatSubItems(sub_items) ==
  IF sub_items = <<>> THEN <<>>
  ELSE <<" ", " ", " ", " ", "*", " ">> \o Head(sub_items) \o <<"\n">>
       \o FormatSubItems(Tail(sub_items))

FormatItem(it) ==
  IF it.isTuple
    THEN <<"*", " ">> \o it.main_item \o <<"\n">> \o FormatSubItems(it.sub_items)
    ELSE <<"*", " ">> \o it.main_item \o <<"\n">>

\* a formatter that walks the items from the last to the first
RECURSIVE FormatItemsReversed(_)
FormatItemsReversed(items) ==
  IF items = <<>> THEN <<>>
  ELSE FormatItemsReversed(Tail(items)) \o FormatItem(Head(items))

RECURSIVE FormatItems(_)
FormatItems(items) ==
  IF items = <<>> THEN <<>>
  ELSE FormatItem(Head(items)) \o FormatItems(Tail(items))

FormatCategory(e) ==
  IF e.items # <<>>
    THEN <<"#", "#", "#", " ">> \o e.category \o <<"\n">>
         \o FormatItems(e.items) \o <<"\n">>
    ELSE <<>>

RECURSIVE FormatCategories(_)
FormatCategories(entries) ==
  IF entries = <<>> THEN <<>>
  ELSE FormatCategory(Head(entries)) \o FormatCategories(Tail(entries))

\* f"## {date.strftime('%Y-%m-%d')}"
DateHeader(dt) == <<"#", "#", " ">> \o StrfYmd(dt)

\* lines 117-132
FormatEntry(dt, entries) ==
  <<"\n">> \o DateHeader(dt) \o <<"\n", "\n">> \o FormatCategories(entries)

(***************************************************************************)
(* Log Store and Viewer: paths and text.                                   *)
(***************************************************************************)
\* the month file name, f"{dt.strftime('%Y_%m')}.md", inside work_logs/
LogFileName(dt) == StrfYm(dt) \o <<".", "m", "d">>

FileNames == {LogFileName(dt) : dt \in OptionDates \cup OptionMonths}

\* f"# Work Log - {month_year}\n"
TitleLine(now) ==
  <<"#", " ", "W", "o", "r", "k", " ", "L", "o", "g", " ", "-", " ">>
  \o StrfBY(now) \o <<"\n">>

\* a write of data at offset 0 of a file opened with "w": the bytes of data
\* replace as many bytes of the file, which may be part of a character
WriteAtStart(content, data) ==
  LET old == Encode(content)
      new == Encode(data)
  IN IF Len(old) <= Len(new) THEN data
     ELSE Decode(new \o DropFirst(old, Len(new)))

\* the separator the viewer splits on
SectionSep == <<"\n", "#", "#", " ">>

\* lines 227-231: index of the first segment that starts with the date, 0 if none
RECURSIVE FirstMatch(_, _, _)
FirstMatch(sections, target, i) ==
  IF i > Len(sections) THEN 0
  ELSE IF StartsWith(sections[i], target) THEN i
  ELSE FirstMatch(sections, target, i + 1)

(***************************************************************************)
(* State.                                                                  *)
(***************************************************************************)
VARIABLES
  clk,       \* index into ClockDays: what datetime.now() returns
  log_dir,   \* whether the directory work_logs/ exists
  files,     \* the month files: file name -> [exists, content]
  cfgFile,   \* worklog_config.yaml: [exists, empty, yaml]; empty is a file
             \* of 0 bytes
  proc,      \* the running log and init invocations: position and locals
  viewer,    \* the running view invocation: position, options, clock read
  last,      \* the view or init command that ended last: options, output,
             \* exit; forgotten when a log or a view starts and when a log
             \* writes to a month file
  logsLeft,  \* log invocations still to be started
  linesLeft, \* non-blank lines still to be typed at the prompts
  appended   \* history: the entries appended to each month file, in order

vars == <<clk, log_dir, files, cfgFile, proc, viewer, last, logsLeft,
          linesLeft, appended>>

Procs == {1, 2}

\* datetime.now()
Today == ClockDays[clk]

NoFile == [exists |-> FALSE, content |-> <<>>]

NoConfig == [exists |-> FALSE, empty |-> FALSE, yaml |-> [k \in {} |-> 0]]

\* a configuration file that holds the document yaml
ConfigFile(yaml) == [exists |-> TRUE, empty |-> FALSE, yaml |-> yaml]

\* the configuration file after open(config_path, "w"): there, 0 bytes
EmptyConfig == [exists |-> TRUE, empty |-> TRUE, yaml |-> [k \in {} |-> 0]]

NoErr == [msg |-> "", arg |-> <<>>]

NoResult ==
  [cmd |-> "none", month |-> None, date |-> None, now |-> None, mode |-> "",
   tty |-> FALSE, printed |-> FALSE, out |-> <<>>, err |-> NoErr, code |-> 0,
   existed |-> FALSE, confirm |-> FALSE, wrote |-> FALSE]

\* no view invocation is running
NoViewer == [pc |-> "idle", month |-> None, date |-> None, now |-> None]

\* a process that runs no invocation
IdleProc ==
  [pc |-> "idle", git |-> FALSE, gitOpt |-> "none", cfgGit |-> FALSE,
   date |-> None, categories |-> <<>>, ci |-> 0,
   entries |-> <<>>, items |-> <<>>, item |-> <<>>, sub_items |-> <<>>,
   entry |-> <<>>, file_path |-> <<>>, title |-> <<>>, exit |-> 0,
   first |-> FALSE, firstBlank |-> {}, accepted |-> <<>>,
   answer |-> "none", prompts |-> 0, blanks |-> 0, endBlanks |-> 0,
   gitResult |-> "none", gitSawEntry |-> FALSE,
   existed |-> FALSE, confirm |-> FALSE]

\* a log invocation that ended on an exception no handler of log catches:
\* the traceback is printed and the exit status is 1
Crashed == [IdleProc EXCEPT !.pc = "failed", !.exit = 1]

Last(s) == s[Len(s)]

Front(s) == SubSeq(s, 1, Len(s) - 1)

\* the lines a user types at a prompt
RawLines ==
  { <<>>, <<"\f", "U+1680">>, <<"a">>,
    <<"#", "#", " ", "b", "\r", "#", "#", " ", "c", " ">>,
    <<"U+00E9", ESC, "[", "m">> }

\* a line of white space only
IsBlank(raw) == \A i \in 1..Len(raw) : raw[i] \in Whitespace

\* an empty work_logs/ in a repository whose user has written a configuration
Init ==
  /\ clk = 1
  /\ log_dir = FALSE
  /\ files = [f \in FileNames |-> NoFile]
  /\ cfgFile \in {ConfigFile(y) : y \in UserConfigs}
  /\ proc = [p \in Procs |-> IdleProc]
  /\ viewer = NoViewer
  /\ last = NoResult
  /\ logsLeft = MaxLogs
  /\ linesLeft = MaxLines
  /\ appended = [f \in FileNames |-> <<>>]

(***************************************************************************)
(* log: options and the Entry Collector (lines 67-115, 179-186).           *)
(***************************************************************************)
\* line 182: git if git is not None else config["git_auto_commit"]
EffectiveGit(gitOpt, config) ==
  IF gitOpt # "none" THEN gitOpt = "yes" ELSE config.git_auto_commit

\* the prompt of category number ci, or the end of collection
\* (the for loop of line 77 and the formatting that follows it)
EnterCategory(l, ci) ==
  IF ci <= Len(l.categories)
    THEN [l EXCEPT !.pc = "item", !.ci = ci, !.items = <<>>, !.first = TRUE]
    ELSE [l EXCEPT !.pc = "path", !.ci = ci, !.items = <<>>, !.first = FALSE,
                   !.entry = FormatEntry(l.date, l.entries)]

\* a break out of the item loop: lines 114-115, then the next category
EndCategory(l, items) ==
  EnterCategory(
    [l EXCEPT !.entries = StoreCategory(l.entries, l.categories[l.ci], items),
              !.endBlanks = l.blanks, !.blanks = 0],
    l.ci + 1)

\* the options of log: --git/--no-git or neither, and --date, whose default
\* (line 176) is the day the clock shows as the command starts
LogStart(p) ==
  /\ proc[p].pc = "idle"
  /\ logsLeft > 0
  /\ \E gitOpt \in {"none", "yes", "no"}, dateOpt \in OptionDates \cup {None} :
       proc' = [proc EXCEPT ![p] =
                  [IdleProc EXCEPT
                     !.pc = "config",
                     !.gitOpt = gitOpt,
                     !.date = IF dateOpt = None THEN Today ELSE dateOpt]]
  /\ logsLeft' = logsLeft - 1
  /\ last' = NoResult
  /\ UNCHANGED <<viewer, clk, log_dir, files, cfgFile, linesLeft, appended>>

\* lines 181-185: the first read of the configuration, which gives the git
\* flag when the option was left out
LogConfig(p) ==
  /\ proc[p].pc = "config"
  /\ IF LoadFails(cfgFile)
       THEN proc' = [proc EXCEPT ![p] = Crashed]
       ELSE LET config == load_config(cfgFile)
            IN proc' = [proc EXCEPT
                          ![p].pc = "categories",
                          ![p].git = EffectiveGit(proc[p].gitOpt, config),
                          ![p].cfgGit = config.git_auto_commit]
  /\ UNCHANGED <<viewer, clk, log_dir, files, cfgFile, last, logsLeft,
                 linesLeft, appended>>

\* lines 69-77: create_daily_entry reads the configuration again, for the
\* categories, and comes to the prompt of the first one
LogCategories(p) ==
  /\ proc[p].pc = "categories"
  /\ IF LoadFails(cfgFile)
       THEN proc' = [proc EXCEPT ![p] = Crashed]
       ELSE proc' = [proc EXCEPT ![p] =
                       EnterCategory(
                         [proc[p] EXCEPT
                            !.categories = load_config(cfgFile).categories],
                         1)]
  /\ UNCHANGED <<viewer, clk, log_dir, files, cfgFile, last, logsLeft, linesLeft,
                 appended>>

\* lines 84-93: one answer to the item prompt
ItemStep(l, raw) ==
  LET item == Strip(raw)
      l1 == [l EXCEPT !.first = FALSE,
                      !.answer = IF IsBlank(raw) THEN "item_blank" ELSE "item_text",
                      !.prompts = @ + 1,
                      !.blanks = IF IsBlank(raw) THEN @ + 1 ELSE 0,
                      !.firstBlank = IF l.first /\ IsBlank(raw)
                                       THEN @ \cup {l.ci} ELSE @,
                      !.accepted = IF IsBlank(raw) THEN @
                                   ELSE Append(@, [ci |-> l.ci, kind |-> "item",
                                                   raw |-> raw])]
  IN IF item = <<>>
       THEN IF l.items = <<>>
              THEN EndCategory(l1, l.items)
            ELSE IF ~Truthy(Last(l.items))
              THEN EndCategory(l1, Front(l.items))
            ELSE [l1 EXCEPT !.items = Append(l.items, StrItem(item))]
       ELSE [l1 EXCEPT !.pc = "sub", !.item = item, !.sub_items = <<>>]

PromptItem(p) ==
  /\ proc[p].pc = "item"
  /\ \E raw \in RawLines :
       /\ ~IsBlank(raw) => linesLeft > 0
       /\ proc' = [proc EXCEPT ![p] = ItemStep(proc[p], raw)]
       /\ linesLeft' = IF IsBlank(raw) THEN linesLeft ELSE linesLeft - 1
  /\ UNCHANGED <<viewer, clk, log_dir, files, cfgFile, last, logsLeft, appended>>

\* an end of the sub-item loop that keeps the blank answer as a sub-item
EndItemKeepingBlank(l, sub_items) ==
  [l EXCEPT !.pc = "item", !.sub_items = <<>>, !.item = <<>>,
            !.items = Append(l.items, TupleItem(l.item, Append(sub_items, <<>>)))]

\* line 112: the end of the sub-item loop
EndItem(l, sub_items) ==
  [l EXCEPT !.pc = "item", !.sub_items = <<>>, !.item = <<>>,
            !.items = Append(l.items, TupleItem(l.item, sub_items))]

\* lines 97-110: one answer to the sub-item prompt
SubItemStep(l, raw) ==
  LET sub_item == Strip(raw)
      l1 == [l EXCEPT !.answer = IF IsBlank(raw) THEN "sub_blank" ELSE "sub_text",
                      !.prompts = @ + 1,
                      !.blanks = IF IsBlank(raw) THEN @ + 1 ELSE 0,
                      !.accepted = IF IsBlank(raw) THEN @
                                   ELSE Append(@, [ci |-> l.ci, kind |-> "sub",
                                                   raw |-> raw])]
  IN IF sub_item = <<>>
       THEN IF l.sub_items # <<>> /\ Last(l.sub_items) = <<>>
              THEN EndItem(l1, Front(l.sub_items))
            ELSE IF l.sub_items = <<>>
              THEN EndItem(l1, l.sub_items)
            ELSE [l1 EXCEPT !.sub_items = Append(l.sub_items, sub_item)]
       ELSE [l1 EXCEPT !.sub_items = Append(l.sub_items, sub_item)]

PromptSubItem(p) ==
  /\ proc[p].pc = "sub"
  /\ \E raw \in RawLines :
       /\ ~IsBlank(raw) => linesLeft > 0
       /\ proc' = [proc EXCEPT ![p] = SubItemStep(proc[p], raw)]
       /\ linesLeft' = IF IsBlank(raw) THEN linesLeft ELSE linesLeft - 1
  /\ UNCHANGED <<viewer, clk, log_dir, files, cfgFile, last, logsLeft, appended>>

(***************************************************************************)
(* log: the Log Store (lines 135-149) and the commit (lines 152-160).      *)
(***************************************************************************)
\* lines 137 and 62: get_log_file_path reads the clock; the month of that
\* moment names the file (line 64)
UpdPath(p) ==
  /\ proc[p].pc = "path"
  /\ proc' = [proc EXCEPT ![p].file_path = LogFileName(Today),
                          ![p].pc = "mkdir"]
  /\ UNCHANGED <<viewer, clk, log_dir, files, cfgFile, last, logsLeft, linesLeft,
                 appended>>

\* line 63: create_log_directory, os.makedirs(log_dir, exist_ok=True)
UpdMkdir(p) ==
  /\ proc[p].pc = "mkdir"
  /\ log_dir' = TRUE
  /\ proc' = [proc EXCEPT ![p].pc = "exists"]
  /\ UNCHANGED <<viewer, clk, files, cfgFile, last, logsLeft, linesLeft, appended>>

\* line 140: the exists test on the path
UpdExists(p) ==
  /\ proc[p].pc = "exists"
  /\ proc' = [proc EXCEPT ![p].pc = IF ~files[proc[p].file_path].exists
                                      THEN "openw" ELSE "append"]
  /\ UNCHANGED <<viewer, clk, log_dir, files, cfgFile, last, logsLeft, linesLeft,
                 appended>>

\* line 141: open(file_path, "w") creates the file or truncates it
UpdOpenW(p) ==
  /\ proc[p].pc = "openw"
  /\ files' = [files EXCEPT ![proc[p].file_path] =
                 [exists |-> TRUE, content |-> <<>>]]
  /\ proc' = [proc EXCEPT ![p].pc = "title"]
  /\ last' = NoResult
  /\ UNCHANGED <<viewer, clk, log_dir, cfgFile, logsLeft, linesLeft, appended>>

\* line 142: the clock is read for the month and year of the title
UpdTitle(p) ==
  /\ proc[p].pc = "title"
  /\ proc' = [proc EXCEPT ![p].title = TitleLine(Today), ![p].pc = "write"]
  /\ UNCHANGED <<viewer, clk, log_dir, files, cfgFile, last, logsLeft,
                 linesLeft, appended>>

\* line 143 and the end of the with block of line 141: the title line
\* reaches the file, at the start of it, when the handle is closed
UpdWriteTitle(p) ==
  /\ proc[p].pc = "write"
  /\ files' = [files EXCEPT ![proc[p].file_path].content =
                 WriteAtStart(@, proc[p].title)]
  /\ proc' = [proc EXCEPT ![p].pc = "append"]
  /\ last' = NoResult
  /\ UNCHANGED <<viewer, clk, log_dir, cfgFile, logsLeft, linesLeft, appended>>

\* the write of a Log Store that opened the file with "w"
AppendWriteTruncating(content, entry) == entry

\* what open(file_path, "a") and f.write(entry) leave in the file
AppendWrite(content, entry) == content \o entry

\* a log that commits whatever the flag says
AfterUpdateAlways(git) == "commit"

\* lines 192-193: where log goes after update_log_file
AfterUpdate(git) == IF git THEN "commit" ELSE "done"

\* lines 146-149
UpdAppend(p) ==
  /\ proc[p].pc = "append"
  /\ files' = [files EXCEPT ![proc[p].file_path] =
                 [exists |-> TRUE,
                  content |-> AppendWrite(@.content, proc[p].entry)]]
  /\ appended' = [appended EXCEPT ![proc[p].file_path] =
                    Append(@, proc[p].entry)]
  /\ proc' = [proc EXCEPT ![p].pc = AfterUpdate(proc[p].git)]
  /\ last' = NoResult
  /\ UNCHANGED <<viewer, clk, log_dir, cfgFile, logsLeft, linesLeft>>

\* s ends with suffix
EndsWith(s, suffix) ==
  /\ Len(suffix) <= Len(s)
  /\ SubSeq(s, Len(s) - Len(suffix) + 1, Len(s)) = suffix

\* the exit status of log after commit_to_git: a CalledProcessError is
\* caught at line 159 and reported, nothing is raised
ExitAfterCommit(outcome) == 0

\* lines 152-160: git add, then git commit; either may fail
Commit(p) ==
  /\ proc[p].pc = "commit"
  /\ \E outcome \in {"ok", "add_failed", "commit_failed"} :
       proc' = [proc EXCEPT
                     ![p].pc = "done",
                     ![p].gitResult = outcome,
                     ![p].gitSawEntry =
                        EndsWith(files[proc[p].file_path].content, proc[p].entry),
                     ![p].exit = ExitAfterCommit(outcome)]
  /\ UNCHANGED <<viewer, clk, log_dir, files, cfgFile, last, logsLeft, linesLeft, appended>>

(***************************************************************************)
(* view (lines 199-246).                                                   *)
(***************************************************************************)
\* line 216, `if date:` : a datetime is true, None is false
DateTruthy(date) == date # None

\* the --date option's default, lambda: datetime.now()
ViewDate(dateOpt, now) == IF dateOpt = None THEN now ELSE dateOpt

\* except WorkLogError: print "Error: <message>", exit 1
ViewError(r, msg, arg) ==
  [r EXCEPT !.err = [msg |-> msg, arg |-> arg], !.code = 1]

\* click.echo(text): the text and a line end; the escape sequences are
\* removed unless the output is a terminal
ViewEcho(r, text) ==
  [r EXCEPT !.printed = TRUE,
            !.out = (IF r.tty THEN text ELSE StripAnsi(text)) \o <<"\n">>,
            !.code = 0]

\* f.read() on bytes that are no text: the UnicodeDecodeError is not a
\* WorkLogError, nothing catches it, the exit status is 1
ViewCrash(r) ==
  [r EXCEPT !.err = [msg |-> "UnicodeDecodeError", arg |-> <<>>], !.code = 1]

\* lines 217-232
ViewDay(r, date, fs) ==
  LET file_path == LogFileName(date) IN
    IF ~fs[file_path].exists
      THEN ViewError(r, "Error: No logs found for specified date", <<>>)
    ELSE IF Undecodable(fs[file_path].content) THEN ViewCrash(r)
      ELSE LET content == ReadText(fs[file_path].content)
               sections == Split(content, SectionSep)
               i == FirstMatch(sections, StrfYmd(date), 1)
           IN IF i > 0
                THEN ViewEcho(r, <<"#", "#", " ">> \o sections[i])
                ELSE ViewError(r, "Error: No entry found for ", StrfYmd(date))

\* lines 234-242
ViewMonth(r, month, fs) ==
  IF month = None
    THEN [r EXCEPT !.err = [msg |-> "AttributeError", arg |-> <<>>], !.code = 1]
    ELSE LET file_path == LogFileName(month) IN
           IF ~fs[file_path].exists
             THEN ViewError(r, "Error: No logs found for specified month", <<>>)
           ELSE IF Undecodable(fs[file_path].content) THEN ViewCrash(r)
             ELSE ViewEcho(r, ReadText(fs[file_path].content))

\* lines 216-246, for the options as click passes them
ViewResult(month, dateOpt, now, tty, fs) ==
  LET date == ViewDate(dateOpt, now)
      r == [NoResult EXCEPT !.cmd = "view", !.month = month, !.date = dateOpt,
                            !.now = now, !.tty = tty,
                            !.mode = IF DateTruthy(date) THEN "day" ELSE "month"]
  IN IF DateTruthy(date) THEN ViewDay(r, date, fs) ELSE ViewMonth(r, month, fs)

\* a view that opens the month files as if to add to them
ViewFilesTouched(fs) ==
  [f \in DOMAIN fs |-> [exists |-> TRUE, content |-> fs[f].content]]

\* the month files after a view: lines 224 and 241 open them for reading only
ViewFiles(fs) == fs

\* click parses the options: without --date the default of line 209 reads
\* the clock, with --date no clock is read
ViewStart ==
  /\ viewer.pc = "idle"
  /\ \E month \in OptionMonths \cup {None}, dateOpt \in OptionDates \cup {None} :
       viewer' = [pc |-> "mkdir", month |-> month, date |-> dateOpt,
                  now |-> IF dateOpt = None THEN Today ELSE None]
  /\ last' = NoResult
  /\ UNCHANGED <<clk, log_dir, files, cfgFile, proc, logsLeft, linesLeft,
                 appended>>

\* lines 219 and 236: create_log_directory
ViewMkdir ==
  /\ viewer.pc = "mkdir"
  /\ log_dir' = TRUE
  /\ viewer' = [viewer EXCEPT !.pc = "read"]
  /\ UNCHANGED <<clk, files, cfgFile, proc, last, logsLeft, linesLeft,
                 appended>>

\* lines 221-232 and 238-246: the exists test, the read and the output,
\* which goes to a terminal (tty) or to a pipe or a file
ViewRead ==
  /\ viewer.pc = "read"
  /\ \E tty \in BOOLEAN :
       last' = ViewResult(viewer.month, viewer.date, viewer.now, tty, files)
  /\ files' = ViewFiles(files)
  /\ viewer' = NoViewer
  /\ UNCHANGED <<clk, log_dir, cfgFile, proc, logsLeft, linesLeft, appended>>

\* one step of the view invocation
View == ViewStart \/ ViewMkdir \/ ViewRead

(***************************************************************************)
(* init (lines 249-259).                                                   *)
(***************************************************************************)
\* lines 253-255: the file is written unless it exists and the prompt is declined
InitWrites(exists, confirm) == ~exists \/ confirm

\* line 253: the test of config_path.exists(); the invocation then waits in
\* click.confirm, or goes on to write when there is no file
InitExists(p) ==
  /\ proc[p].pc = "idle"
  /\ proc' = [proc EXCEPT
                ![p].pc = IF InitWrites(cfgFile.exists, FALSE)
                            THEN "initw" ELSE "confirm",
                ![p].existed = cfgFile.exists]
  /\ UNCHANGED <<viewer, clk, log_dir, files, cfgFile, last, logsLeft, linesLeft,
                 appended>>

\* lines 254-255: the answer to "Configuration file exists. Overwrite?"
InitConfirm(p) ==
  /\ proc[p].pc = "confirm"
  /\ \E answer \in BOOLEAN :
       IF InitWrites(proc[p].existed, answer)
         THEN /\ proc' = [proc EXCEPT ![p].pc = "initw", ![p].confirm = answer]
              /\ last' = last
         ELSE /\ proc' = [proc EXCEPT ![p] = IdleProc]
              /\ last' = [NoResult EXCEPT !.cmd = "init",
                                          !.existed = proc[p].existed,
                                          !.confirm = FALSE, !.wrote = FALSE]
  /\ UNCHANGED <<viewer, clk, log_dir, files, cfgFile, logsLeft, linesLeft, appended>>

\* line 257: open(config_path, "w") creates the file or empties it
InitOpenW(p) ==
  /\ proc[p].pc = "initw"
  /\ cfgFile' = EmptyConfig
  /\ proc' = [proc EXCEPT ![p].pc = "initdump"]
  /\ UNCHANGED <<viewer, clk, log_dir, files, last, logsLeft, linesLeft,
                 appended>>

\* lines 258-259: yaml.dump, which reaches the file at the end of the with
\* block, and the message
InitDump(p) ==
  /\ proc[p].pc = "initdump"
  /\ cfgFile' = ConfigFile(DEFAULT_CONFIG)
  /\ last' = [NoResult EXCEPT !.cmd = "init", !.existed = proc[p].existed,
                              !.confirm = proc[p].confirm, !.wrote = TRUE]
  /\ proc' = [proc EXCEPT ![p] = IdleProc]
  /\ UNCHANGED <<viewer, clk, log_dir, files, logsLeft, linesLeft, appended>>

\* one step of an init invocation that runs as process p
InitStep(p) ==
  InitExists(p) \/ InitConfirm(p) \/ InitOpenW(p) \/ InitDump(p)

(***************************************************************************)
(* The clock, and the specification: one log invocation at a time, the     *)
(* clock and the other commands running at any moment of it.               *)
(***************************************************************************)
Tick ==
  /\ clk < Len(ClockDays)
  /\ clk' = clk + 1
  /\ UNCHANGED <<viewer, log_dir, files, cfgFile, proc, last, logsLeft, linesLeft, appended>>

\* the process of a log invocation that has finished or failed exits
LogExit(p) ==
  /\ proc[p].pc \in {"done", "failed"}
  /\ proc' = [proc EXCEPT ![p] = IdleProc]
  /\ UNCHANGED <<viewer, clk, log_dir, files, cfgFile, last, logsLeft, linesLeft, appended>>

\* no log and no init invocation is running
Quiet == \A p \in Procs : proc[p].pc = "idle"

\* the steps of the log invocation of process 1
NextLog ==
  \/ LogStart(1)
  \/ LogConfig(1)
  \/ LogCategories(1)
  \/ PromptItem(1)
  \/ PromptSubItem(1)
  \/ UpdPath(1)
  \/ UpdMkdir(1)
  \/ UpdExists(1)
  \/ UpdOpenW(1)
  \/ UpdTitle(1)
  \/ UpdWriteTitle(1)
  \/ UpdAppend(1)
  \/ Commit(1)
  \/ LogExit(1)

Next ==
  \/ NextLog
  \/ View
  \/ Tick

Spec == Init /\ [][Next]_vars

\* a single log invocation, with more lines typed at its prompts
InitEntry ==
  /\ clk = 1
  /\ log_dir = FALSE
  /\ files = [f \in FileNames |-> NoFile]
  /\ cfgFile \in {ConfigFile(y) : y \in UserConfigs}
  /\ proc = [p \in Procs |-> IdleProc]
  /\ viewer = NoViewer
  /\ last = NoResult
  /\ logsLeft = 1
  /\ linesLeft = MaxEntryLines
  /\ appended = [f \in FileNames |-> <<>>]

NextEntry ==
  \/ NextLog
  \/ Tick

SpecEntry == InitEntry /\ [][NextEntry]_vars

\* the commands log and init: init invocations test, ask and rewrite the
\* configuration at any moment before, during and after a single log
\* invocation, and next to each other; the repository starts without a
\* configuration file or with a user's
InitConfig ==
  /\ clk = 1
  /\ log_dir = FALSE
  /\ files = [f \in FileNames |-> NoFile]
  /\ cfgFile \in {NoConfig} \cup {ConfigFile(y) : y \in UserConfigs}
  /\ proc = [p \in Procs |-> IdleProc]
  /\ viewer = NoViewer
  /\ last = NoResult
  /\ logsLeft = 1
  /\ linesLeft = MaxLines
  /\ appended = [f \in FileNames |-> <<>>]

NextConfig ==
  \/ NextLog
  \/ Tick
  \/ \E p \in Procs : InitStep(p)

SpecConfig == InitConfig /\ [][NextConfig]_vars

(***************************************************************************)
(* Helpers of the properties.                                              *)
(***************************************************************************)
IsPrefix(s, t) == Len(s) <= Len(t) /\ SubSeq(t, 1, Len(s)) = s

RECURSIVE Concat(_)
Concat(seqs) == IF seqs = <<>> THEN <<>> ELSE Head(seqs) \o Concat(Tail(seqs))

\* the YYYY-MM-DD of the header of a rendered entry, "\n## YYYY-MM-DD\n\n..."
EntryDate(entry) == SubSeq(entry, 5, FindFrom(entry, <<"\n">>, 5) - 1)

\* s occurs in t
Occurs(s, t) == FindFrom(t, s, 1) > 0

\* content is what a month file holds once the entries of es were appended
\* to it: the title of the day the file was created on, then the entries
IsStored(content, es) ==
  \E i \in 1..Len(ClockDays) : content = TitleLine(ClockDays[i]) \o Concat(es)

\* index of the first entry of es dated target, 0 if none
RECURSIVE FirstDated(_, _, _)
FirstDated(es, target, i) ==
  IF i > Len(es) THEN 0
  ELSE IF EntryDate(es[i]) = target THEN i
  ELSE FirstDated(es, target, i + 1)

ErrorMessages ==
  {"Error: No logs found for specified date",
   "Error: No entry found for ",
   "Error: No logs found for specified month"}

(***************************************************************************)
(* C1. update_log_file is append-only: whatever a month file holds before  *)
(* a step of a log invocation is a prefix of what it holds after it, and   *)
(* an existing file stays.                                                 *)
(***************************************************************************)
C1_AppendOnly ==
  [][\A f \in FileNames :
       files[f].exists =>
         /\ files'[f].exists
         /\ IsPrefix(files[f].content, files'[f].content)]_vars

\* a second invocation has appended to a file that held a first entry
C1_Witness ==
  \E f \in FileNames :
    /\ Len(appended[f]) >= 2
    /\ IsStored(files[f].content, appended[f])

(***************************************************************************)
(* C2. Every day-section of the month file YYYY_MM.md carries a date of    *)
(* the month YYYY-MM, also for a --date of another month.                  *)
(***************************************************************************)
C2_SectionsInFileMonth ==
  \A f \in FileNames :
    files[f].exists =>
      LET sections == Split(files[f].content, SectionSep) IN
        \A i \in 2..Len(sections) :
          /\ SubSeq(sections[i], 1, 4) = SubSeq(f, 1, 4)
          /\ SubSeq(sections[i], 6, 7) = SubSeq(f, 6, 7)

(***************************************************************************)
(* C3. view with --month and without --date runs the whole-month mode and  *)
(* prints the month file as it is.                                         *)
(***************************************************************************)
C3_MonthOptionSelectsMonthMode ==
  (last.cmd = "view" /\ last.month # None /\ last.date = None) =>
    /\ last.mode = "month"
    /\ files[LogFileName(last.month)].exists =>
         /\ last.printed
         /\ last.out = files[LogFileName(last.month)].content \o <<"\n">>

(***************************************************************************)
(* C4. A month file is its title line followed by the appended entries in  *)
(* the order they were appended, and viewing the whole month prints all    *)
(* their headers in that order.                                            *)
(***************************************************************************)
\* the first half: the stored text
StoreKeepsOrder ==
  \A f \in FileNames :
    (Quiet /\ files[f].exists) => IsStored(files[f].content, appended[f])

\* the second half: what a whole-month view of the file shows
MonthViewShowsHeaders ==
  (last.cmd = "view" /\ last.month # None /\ last.date = None
     /\ files[LogFileName(last.month)].exists) =>
    LET es == appended[LogFileName(last.month)]
        shown == Split(last.out, SectionSep)
    IN /\ last.printed
       /\ Len(shown) = Len(es) + 1
       /\ \A i \in 1..Len(es) : SubSeq(shown[i + 1], 1, 10) = EntryDate(es[i])

C4_OrderKeptAndShown == StoreKeepsOrder /\ MonthViewShowsHeaders

(***************************************************************************)
(* C5. view --date D on a month file that holds day-sections, one of them  *)
(* for D, prints exactly the first day-section of D as the file holds it:  *)
(* from its "## D" header up to the header of the entry that follows, with *)
(* no header and no line of another section.                               *)
(***************************************************************************)
\* the day-section that the rendered entry makes in the file: the entry from
\* the date of its header on, up to a line end followed by "## "
DaySection(entry) ==
  LET body == DropFirst(entry, Len(SectionSep))
      next == FindFrom(body, SectionSep, 1)
  IN IF next = 0 THEN body ELSE SubSeq(body, 1, next - 1)

C5_SingleDayExtraction ==
  (last.cmd = "view" /\ last.date # None) =>
    LET f == LogFileName(last.date)
        k == FirstDated(appended[f], StrfYmd(last.date), 1)
    IN (files[f].exists /\ k > 0) =>
         /\ last.printed
         /\ last.code = 0
         /\ last.out = <<"#", "#", " ">> \o DaySection(appended[f][k]) \o <<"\n">>
         /\ StartsWith(last.out, DateHeader(last.date))
         /\ ~Occurs(SectionSep, last.out)

(***************************************************************************)
(* C6. view reports a month file or a section that is not there as an      *)
(* error: "Error: ..." on the error stream, no log content, a non-zero     *)
(* exit; it exits with zero exactly when it printed a section or a month.  *)
(***************************************************************************)
C6_NotFoundIsAnError ==
  last.cmd = "view" =>
    LET byDay == last.date # None \/ last.month = None
        target == IF last.date # None THEN last.date
                  ELSE IF last.month # None THEN last.month
                  ELSE last.now
        f == LogFileName(target)
        notFound == \/ ~files[f].exists
                    \/ byDay /\ FirstDated(appended[f], StrfYmd(target), 1) = 0
    IN /\ notFound => /\ last.err.msg \in ErrorMessages
                      /\ ~last.printed
                      /\ last.code # 0
       /\ last.code = 0 <=> last.printed

(***************************************************************************)
(* C7. log calls the commit only after the entry is in the month file and  *)
(* only when the effective git flag is true (--git/--no-git if given, the  *)
(* configuration's git_auto_commit otherwise); a failing commit leaves the *)
(* entry in the file and the command ends with status zero.                *)
(***************************************************************************)
C7_CommitAfterAppend ==
  \A p \in Procs :
    LET l == proc[p]
        flag == IF l.gitOpt = "yes" THEN TRUE
                ELSE IF l.gitOpt = "no" THEN FALSE
                ELSE l.cfgGit
        stored == EndsWith(files[l.file_path].content, l.entry)
    IN /\ l.pc \notin {"idle", "config"} => l.git = flag
       /\ l.pc = "commit" => flag /\ stored
       /\ l.gitResult # "none" => flag /\ l.gitSawEntry
       /\ l.pc = "done" => /\ l.exit = 0
                           /\ stored
                           /\ flag <=> l.gitResult # "none"

\* the flag came from the configuration and the commit failed
C7_Witness ==
  \E p \in Procs :
    /\ proc[p].pc = "done"
    /\ proc[p].gitOpt = "none"
    /\ proc[p].gitResult \in {"add_failed", "commit_failed"}
    /\ proc[p].exit = 0

(***************************************************************************)
(* C8. init never overwrites an existing configuration file without        *)
(* confirmation: an init that was declined leaves the file as it is; an    *)
(* init opens the file for writing only when there is no file or the       *)
(* overwrite was confirmed; the file changes only by such an init, and     *)
(* when that init ends the file holds the default configuration.           *)
(***************************************************************************)
C8_InitAsksBeforeOverwrite ==
  [][/\ \A p \in Procs :
          LET l == proc[p]
              n == proc'[p]
          IN /\ (l.pc = "confirm" /\ n.pc = "idle") => cfgFile' = cfgFile
             /\ (l.pc = "initw" /\ n.pc = "initdump") =>
                  ~cfgFile.exists \/ l.confirm
             /\ (l.pc = "initdump" /\ n.pc = "idle") =>
                  cfgFile' = ConfigFile(DEFAULT_CONFIG)
     /\ cfgFile' # cfgFile =>
          \E p \in Procs : /\ proc[p].pc \in {"initw", "initdump"}
                           /\ proc'[p] # proc[p]]_vars

(***************************************************************************)
(* C9. A category whose first prompt was answered with a blank line is     *)
(* not a key of the collected mapping, no category is stored with an empty *)
(* list, and the rendered text has no "### <category>" line for it.        *)
(***************************************************************************)
\* the collector of process p has returned
Collected(p) ==
  proc[p].pc \in {"path", "mkdir", "exists", "openw", "title", "write",
                  "append", "commit", "done"}

C9_EmptyCategoryOmitted ==
  \A p \in Procs :
    LET l == proc[p] IN
      /\ \A i \in 1..Len(l.entries) : l.entries[i].items # <<>>
      /\ \A ci \in l.firstBlank :
           /\ \A i \in 1..Len(l.entries) : l.entries[i].category # l.categories[ci]
           /\ Collected(p) =>
                ~Occurs(<<"#", "#", "#", " ">> \o l.categories[ci] \o <<"\n">>, l.entry)

\* one category was skipped with a blank line, another one holds items
C9_Witness ==
  \E p \in Procs :
    /\ proc[p].pc = "done"
    /\ proc[p].firstBlank # {}
    /\ proc[p].entries # <<>>
    /\ Len(proc[p].entries) + Cardinality(proc[p].firstBlank) = Len(proc[p].categories)

(***************************************************************************)
(* C10. The rendered entry keeps the order: the category headers in the    *)
(* configured order, the bullets of a category in the order the items were *)
(* typed, the nested bullets of an item in the order its sub-items were    *)
(* typed, right under their item.                                          *)
(***************************************************************************)
\* the lines the typed non-blank answers ask for, in the order typed: a
\* header when the category changes, then the bullet
RECURSIVE ExpectedLines(_, _, _)
ExpectedLines(l, i, prevCi) ==
  IF i > Len(l.accepted) THEN <<>>
  ELSE LET a == l.accepted[i]
           header == IF a.ci # prevCi
                       THEN << <<"#", "#", "#", " ">> \o l.categories[a.ci] >>
                       ELSE <<>>
           bullet == IF a.kind = "item"
                       THEN <<"*", " ">> \o Strip(a.raw)
                       ELSE <<" ", " ", " ", " ", "*", " ">> \o Strip(a.raw)
       IN header \o <<bullet>> \o ExpectedLines(l, i + 1, a.ci)

\* the lines of a rendered entry that carry text: not the date header, not
\* the empty lines, not the bullets without text
RECURSIVE TextLines(_)
TextLines(lines) ==
  IF lines = <<>> THEN <<>>
  ELSE IF \/ Head(lines) \in {<<>>, <<"*", " ">>, <<" ", " ", " ", " ", "*", " ">>}
          \/ (StartsWith(Head(lines), <<"#", "#", " ">>))
         THEN TextLines(Tail(lines))
         ELSE <<Head(lines)>> \o TextLines(Tail(lines))

C10_OrderPreserved ==
  \A p \in Procs :
    Collected(p) =>
      /\ TextLines(Split(proc[p].entry, <<"\n">>)) = ExpectedLines(proc[p], 1, 0)
      /\ \A i, j \in 1..Len(proc[p].accepted) :
           i < j => proc[p].accepted[i].ci <= proc[p].accepted[j].ci

\* an item with two different sub-items was rendered
C10_Witness ==
  \E p \in Procs :
    /\ proc[p].pc = "done"
    /\ Len(proc[p].accepted) = 3
    /\ proc[p].accepted[1].kind = "item"
    /\ proc[p].accepted[2].kind = "sub"
    /\ proc[p].accepted[3].kind = "sub"
    /\ proc[p].accepted[2].raw # proc[p].accepted[3].raw

(***************************************************************************)
(* Two log invocations at the same time: each is its own operating-system  *)
(* process, and their steps on the month file interleave in any order.     *)
(***************************************************************************)
InitConc ==
  /\ clk = 1
  /\ log_dir = FALSE
  /\ files = [f \in FileNames |-> NoFile]
  /\ cfgFile \in {ConfigFile(y) : y \in UserConfigs}
  /\ proc = [p \in Procs |-> IdleProc]
  /\ viewer = NoViewer
  /\ last = NoResult
  /\ logsLeft = MaxLogs
  /\ linesLeft = MaxLines
  /\ appended = [f \in FileNames |-> <<>>]

\* one step of the log invocation that runs as process p
LogStep(p) ==
  \/ LogStart(p)
  \/ LogConfig(p)
  \/ LogCategories(p)
  \/ PromptItem(p)
  \/ PromptSubItem(p)
  \/ UpdPath(p)
  \/ UpdMkdir(p)
  \/ UpdExists(p)
  \/ UpdOpenW(p)
  \/ UpdTitle(p)
  \/ UpdWriteTitle(p)
  \/ UpdAppend(p)
  \/ Commit(p)
  \/ LogExit(p)

NextConc ==
  \/ \E p \in Procs : LogStep(p)
  \/ Tick

SpecConc == InitConc /\ [][NextConc]_vars

(***************************************************************************)
(* The prompt loops of create_daily_entry, one answer at a time.           *)
(***************************************************************************)

\* process p answers the prompt it waits at (at is "item" or "sub")
Answers(p, at) == proc[p].pc = at /\ proc'[p] # proc[p]

\* the answer just given was blank
BlankAnswer(p) == proc'[p].answer \in {"item_blank", "sub_blank"}

\* the item prompt of the next category, or the end of the collection
NextCategory(p) == proc'[p].ci = proc[p].ci + 1

\* the element of a list that a kept blank line leaves: an empty string
KeptBlank(it) == ~it.isTuple /\ it.main_item = <<>>

\* C11, as the spec states it: every blank answer to the item prompt ends the
\* category's item list, so that the next prompt belongs to the next
\* category, whether or not items were collected; every blank answer to the
\* sub-item prompt ends the sub-item list and returns to the item prompt
C11_BlankEndsList ==
  [][\A p \in Procs :
       /\ (Answers(p, "item") /\ BlankAnswer(p)) => NextCategory(p)
       /\ (Answers(p, "sub") /\ BlankAnswer(p)) => proc'[p].pc = "item"]_vars

\* C11, amended: a blank answer to the item prompt ends the category's item
\* list exactly when no item is collected yet or the last collected element
\* is the empty string kept from the blank answer before; otherwise the blank
\* is appended as an empty item and the item prompt of the same category
\* comes again.  The sub-item prompt follows the same rule on the sub-item
\* list: it returns to the item prompt exactly when the list is empty or
\* ends with a kept empty string, and otherwise appends the empty string and
\* prompts for a sub-item again
C11_BlankEndsListOnSecond ==
  [][\A p \in Procs :
       LET l == proc[p]
           n == proc'[p]
       IN /\ (Answers(p, "item") /\ BlankAnswer(p)) =>
               IF l.items = <<>> \/ KeptBlank(Last(l.items))
                 THEN NextCategory(p)
                 ELSE /\ n.pc = "item" /\ n.ci = l.ci
                      /\ n.items = Append(l.items, StrItem(<<>>))
          /\ (Answers(p, "sub") /\ BlankAnswer(p)) =>
               IF l.sub_items = <<>> \/ Last(l.sub_items) = <<>>
                 THEN n.pc = "item" /\ n.ci = l.ci
                 ELSE /\ n.pc = "sub" /\ n.ci = l.ci
                      /\ n.sub_items = Append(l.sub_items, <<>>)]_vars

\* a blank answer after a collected item left the prompt in the same category
C11_Witness ==
  \E p \in Procs :
    /\ proc[p].pc = "item"
    /\ proc[p].answer = "item_blank"
    /\ Len(proc[p].items) = 2
    /\ proc[p].items[1].isTuple
    /\ KeptBlank(proc[p].items[2])

\* a blank answer after a collected sub-item left the prompt in the sub-item
\* loop
C11_WitnessSub ==
  \E p \in Procs :
    /\ proc[p].pc = "sub"
    /\ proc[p].answer = "sub_blank"
    /\ Len(proc[p].sub_items) = 2
    /\ proc[p].sub_items[2] = <<>>

\* an element of a collected list that is a pair of a non-empty text and a
\* sequence of non-empty sub-items
ProperItem(it) ==
  /\ it.isTuple
  /\ it.main_item # <<>>
  /\ \A k \in 1..Len(it.sub_items) : it.sub_items[k] # <<>>

\* the bullets without text that the formatter can write
EmptyBullets == { <<"*", " ">>, <<" ", " ", " ", " ", "*", " ">> }

\* C12: the mapping the collector returns holds no empty-string item and no
\* empty-string sub-item: every stored item is a pair of a non-empty text
\* and a sequence of non-empty sub-items, and no bullet line of the rendered
\* entry has an empty text
C12_NoEmptyItems ==
  \A p \in Procs :
    Collected(p) =>
      /\ \A i \in 1..Len(proc[p].entries) :
           \A k \in 1..Len(proc[p].entries[i].items) :
             ProperItem(proc[p].entries[i].items[k])
      /\ LET lines == Split(proc[p].entry, <<"\n">>)
         IN \A n \in 1..Len(lines) : lines[n] \notin EmptyBullets

\* the collector has just returned a mapping with the one item (text, [])
\* under the one category
OnlyItemWithoutSubItems(l) ==
  /\ l.pc = "path"
  /\ Len(l.entries) = 1
  /\ Len(l.entries[1].items) = 1
  /\ l.entries[1].items[1].isTuple
  /\ l.entries[1].items[1].sub_items = <<>>

\* C13: when the first answer to an item's sub-item prompt is blank, the
\* sub-item loop ends at once with no sub-item: the item is stored as the
\* pair of its text and the empty sequence, the next prompt is the item
\* prompt of the same category, and the item is rendered as the one line
\* "* text" with no nested bullet line after it
C13_FirstBlankEndsSubItems ==
  [][\A p \in Procs :
       LET l == proc[p]
           n == proc'[p]
       IN /\ (Answers(p, "sub") /\ BlankAnswer(p) /\ l.sub_items = <<>>) =>
               /\ n.pc = "item" /\ n.ci = l.ci
               /\ l.item # <<>>
               /\ n.items = Append(l.items, TupleItem(l.item, <<>>))
               /\ FormatItem(Last(n.items)) = <<"*", " ">> \o l.item \o <<"\n">>
          /\ OnlyItemWithoutSubItems(n) =>
               n.entry = <<"\n">> \o DateHeader(n.date) \o <<"\n", "\n">>
                         \o <<"#", "#", "#", " ">> \o n.entries[1].category
                         \o <<"\n", "*", " ">> \o n.entries[1].items[1].main_item
                         \o <<"\n", "\n">>]_vars

\* an item whose sub-item loop ended on its first answer is in the entry
\* that was written, next to an item that has a sub-item
C13_Witness ==
  \E p \in Procs :
    /\ proc[p].pc = "done"
    /\ \E i \in 1..Len(proc[p].entries) :
         \E k, k2 \in 1..Len(proc[p].entries[i].items) :
           /\ proc[p].entries[i].items[k].isTuple
           /\ proc[p].entries[i].items[k].sub_items = <<>>
           /\ proc[p].entries[i].items[k2].sub_items # <<>>

\* every log invocation that was started has finished
AllFinished == \A p \in Procs : proc[p].pc \in {"idle", "done"}

\* C14: when two log invocations run at the same time on the same month
\* file, nothing that one of them wrote is removed or truncated by the
\* other: once both have finished, the file holds the entry of each, one
\* section for every entry that was appended
C14_BothEntriesPresent ==
  AllFinished =>
    \A f \in FileNames :
      /\ \A i \in 1..Len(appended[f]) : Occurs(appended[f][i], files[f].content)
      /\ Len(Split(files[f].content, SectionSep)) >= Len(appended[f]) + 1

\* what a single-day view prints for a rendered entry: the entry without
\* its leading blank line, and the line end of click.echo
PrintedEntry(entry) == Tail(entry) \o <<"\n">>

\* C15: a log for a date D of the current month, into a month file that
\* only log runs produced and that has no earlier section of D, can be read
\* back: a single-day view of D (D given, or D being today and the date left
\* out) succeeds and prints exactly the entry that the log rendered, without
\* its leading blank line, whatever was typed at the prompts and whatever
\* entries come before it and after it
C15_LogThenViewRoundTrip ==
  (last.cmd = "view" /\ last.mode = "day") =>
    LET D == ViewDate(last.date, last.now)
        es == appended[LogFileName(D)]
        k == FirstDated(es, StrfYmd(D), 1)
    IN k > 0 => /\ last.printed /\ last.code = 0 /\ last.err = NoErr
                /\ last.out = PrintedEntry(es[k])

\* C16: in a month file that only log runs produced, the separator of the
\* single-day view, a line end followed by "## ", occurs exactly once for
\* each appended entry, at the date header of that entry: the viewer's split
\* of the file gives the title and one section for each entry, which starts
\* with the date of that entry, so that no item text, no sub-item text and
\* no "### category" line makes a section boundary
C16_OneBoundaryPerEntry ==
  \A f \in FileNames :
    files[f].exists =>
      LET sections == Split(ReadText(files[f].content), SectionSep)
      IN /\ Len(sections) = Len(appended[f]) + 1
         /\ \A i \in 1..Len(appended[f]) :
              StartsWith(sections[i + 1], EntryDate(appended[f][i]))

\* the number of blank answers that end the collection from where l is:
\* those that leave the sub-item loop, those that leave the item loop, and
\* one for every category that follows
BlanksToEnd(l) ==
  IF l.pc \notin {"item", "sub"} THEN 0
  ELSE (Len(l.categories) - l.ci)
       + (IF l.pc = "sub"
            THEN (IF l.sub_items = <<>> \/ Last(l.sub_items) = <<>> THEN 1 ELSE 2) + 2
            ELSE (IF l.items = <<>> \/ KeptBlank(Last(l.items)) THEN 1 ELSE 2))

\* C17: the collection ends on every input that is blank from some point
\* on: each blank answer brings the end one answer nearer; from any state
\* inside a category at most four blank answers in a row end that category;
\* and when every answer is blank the collection ends after exactly one
\* prompt for each configured category, with an empty mapping
C17_CollectionTerminates ==
  [][\A p \in Procs :
       LET l == proc[p]
           n == proc'[p]
       IN /\ ((Answers(p, "item") \/ Answers(p, "sub")) /\ BlankAnswer(p)) =>
               BlanksToEnd(n) = BlanksToEnd(l) - 1
          /\ n.pc \in {"item", "sub"} =>
               /\ BlanksToEnd(n) <= 4 + (Len(n.categories) - n.ci)
               /\ n.blanks <= 3
          /\ n.endBlanks <= 4
          /\ (n.pc = "path" /\ n.accepted = <<>>) =>
               /\ n.prompts = Len(n.categories)
               /\ n.entries = <<>>]_vars

\* a category that held an item with a sub-item was ended by four blank
\* answers in a row
C17_Witness ==
  \E p \in Procs :
    /\ proc[p].endBlanks = 4
    /\ proc[p].answer = "item_blank"
    /\ Len(proc[p].entries) = 1
    /\ proc[p].entries[1].items[1].sub_items # <<>>

\* every answer was blank and the collection has ended
C17_WitnessAllBlank ==
  \E p \in Procs :
    /\ proc[p].pc = "path"
    /\ proc[p].accepted = <<>>
    /\ proc[p].prompts = 2

\* C18: view is read-only on the month files: every step of a view, in
\* either mode and whether it prints or reports that nothing was found,
\* creates no month file and leaves the content of every month file as it
\* was
C18_ViewReadOnly ==
  [][viewer' # viewer => files' = files]_vars

\* a view failed because the month file of its date is missing, next to a
\* month file that holds an entry; the missing file is still missing
C18_Witness ==
  /\ last.cmd = "view"
  /\ last.code = 1
  /\ last.err.msg = "Error: No logs found for specified date"
  /\ log_dir
  /\ ~files[LogFileName(ViewDate(last.date, last.now))].exists
  /\ \E f \in FileNames : files[f].exists /\ Len(appended[f]) > 0

\* a view printed a section and the month file still holds what was stored
C18_WitnessPrinted ==
  /\ last.cmd = "view"
  /\ last.printed
  /\ \E f \in FileNames :
       /\ Len(appended[f]) > 0
       /\ IsStored(files[f].content, appended[f])

====
